---- MODULE Spec2Model ----
\* SIR simulator with a control signal and a CSV-backed history store
\* (src/train.py, src/app.py).  The module holds four state machines over one
\* set of variables:
\*   Spec        the history store and the operations on it
\*   SpecSignal  control_signal evaluated on a sample set
\*   SpecSir     simulate_sir / sir_ode, integrated step by step
\*   SpecSummary generate_summary's classification by beta / gamma
\*   SpecRace    concurrent requests running save_history_entry
EXTENDS Integers, Sequences, FiniteSets, TLC

VARIABLES
    file,       \* data/history.csv: [exists, lines]; a line is a sequence of cells
    issued,     \* number of uuid4() values drawn so far
    calls,      \* log of the save_history_entry calls: <<[id, ts, e]>>
    op,         \* the operation that ran last
    raised,     \* whether the last operation raised an exception
    retId,      \* id returned by the last save_history_entry
    retEntry,   \* <<row>> returned by the last get_history_entry, <<>> for None
    retDf,      \* DataFrame returned by the last load_history_df
    listing,    \* table handed to the template by the last history()
    detailArgs, \* <<arguments>> history_detail passed to simulate_sir, or <<>>
    sig,        \* control_signal call: its arguments and result
    sir,        \* simulate_sir run: parameters, grid position, state, outputs
    summ,       \* generate_summary call: its arguments and result
    req         \* requests in flight: the file at start, each request's position

vars == <<file, issued, calls, op, raised, retId, retEntry, retDf, listing,
          detailArgs, sig, sir, summ, req>>

storeVars == <<file, issued, calls, op, raised, retId, retEntry, retDf,
               listing, detailArgs, req>>

\* ---------------------------------------------------------------- bounds
\* Appends a run makes; instants the wall clock can show during the run.
MaxAppends == 2
MaxClock == 2

\* ---------------------------------------------------------------- values
\* A Python / pandas value is written as its text: a number as str() gives
\* it ("0.3", "100"), a string as itself; None and NaN are the two values
\* below, which no string of the model equals.
None == "None"
NaN == "NaN"

\* str(uuid.uuid4()) for the k-th value drawn; datetime.isoformat() of
\* instant k (ISO texts order as their instants do).
Uuid(k) == "uuid-" \o ToString(k)
Iso(k) == "ts-" \o ToString(k)

\* The instant of an ISO text.
InstantOf(s) == CHOOSE k \in 0..MaxClock : Iso(k) = s

IsNA(v) == v \in {None, NaN}

\* The canonical column schema.
Columns ==
    << "id", "timestamp", "beta", "gamma", "N", "I0", "R0", "days", "signal",
       "amp", "freq", "step_time", "peak_I", "peak_day", "final_S", "final_I",
       "final_R", "summary" >>

\* Position of the first x in seq, 0 when there is none.
IndexOf(seq, x) ==
    IF \E i \in 1..Len(seq) : seq[i] = x
    THEN CHOOSE i \in 1..Len(seq) :
             seq[i] = x /\ \A j \in 1..(i - 1) : seq[j] # x
    ELSE 0

Col(name) == IndexOf(Columns, name)

\* ---------------------------------------------------------------- CSV text
UuidBytes == 36
IsoBytes == 26

\* Bytes of the texts the model writes (utf-8).
TextBytes ==
    ("id" :> 2) @@ ("timestamp" :> 9) @@ ("beta" :> 4) @@ ("gamma" :> 5)
    @@ ("N" :> 1) @@ ("I0" :> 2) @@ ("R0" :> 2) @@ ("days" :> 4)
    @@ ("signal" :> 6) @@ ("amp" :> 3) @@ ("freq" :> 4) @@ ("step_time" :> 9)
    @@ ("peak_I" :> 6) @@ ("peak_day" :> 8) @@ ("final_S" :> 7)
    @@ ("final_I" :> 7) @@ ("final_R" :> 7) @@ ("summary" :> 7)
    @@ ("" :> 0) @@ ("step" :> 4) @@ ("0.3" :> 3) @@ ("0.1" :> 3)
    @@ ("1000.0" :> 6) @@ ("10.0" :> 4) @@ ("0.0" :> 3) @@ ("100" :> 3)
    @@ ("0.5" :> 3) @@ ("1.0" :> 3) @@ ("50.0" :> 4) @@ ("480.2" :> 5)
    @@ ("38.5" :> 4) @@ ("52.1" :> 4) @@ ("3.3" :> 3) @@ ("944.6" :> 5)

\* Bytes of one cell as to_csv writes it.
CellBytes(c) ==
    IF c \in DOMAIN TextBytes THEN TextBytes[c]
    ELSE IF \E k \in 0..MaxAppends : c = Uuid(k) THEN UuidBytes
    ELSE IsoBytes

RECURSIVE SumBytes(_, _)
SumBytes(line, i) ==
    IF i > Len(line) THEN 0 ELSE CellBytes(line[i]) + SumBytes(line, i + 1)

\* A line: the cells, the commas between them, the line terminator.
LineBytes(line) == SumBytes(line, 1) + (Len(line) - 1) + 1

RECURSIVE FileBytes(_, _)
FileBytes(lines, i) ==
    IF i > Len(lines) THEN 0 ELSE LineBytes(lines[i]) + FileBytes(lines, i + 1)

\* to_csv of one value: a missing value is written as the empty field.
ToCell(v) == IF IsNA(v) THEN "" ELSE v

\* read_csv of one field: the empty field is read as NaN.
FromCell(c) == IF c = "" THEN NaN ELSE c

\* A DataFrame: [columns |-> <<names>>, rows |-> <<rows>>], a row being the
\* sequence of its values in column order.
EmptyFrame(cols) == [columns |-> cols, rows |-> <<>>]

\* df.to_csv(HISTORY_FILE, index=False): the header line, then the rows.
ToCsv(df) ==
    << df.columns >>
    \o [r \in 1..Len(df.rows) |->
            [i \in 1..Len(df.rows[r]) |-> ToCell(df.rows[r][i])]]

\* pd.read_csv(HISTORY_FILE): the first line names the columns; a file with
\* no line at all raises EmptyDataError.
ReadCsv(lines) ==
    IF Len(lines) = 0
    THEN [ok |-> FALSE, df |-> EmptyFrame(<<>>)]
    ELSE [ok |-> TRUE,
          df |-> [columns |-> lines[1],
                  rows |-> [r \in 1..(Len(lines) - 1) |->
                              [i \in 1..Len(lines[r + 1]) |->
                                  FromCell(lines[r + 1][i])]]]]

\* df.empty
DfEmpty(df) == Len(df.columns) = 0 \/ Len(df.rows) = 0

HeaderOnly == [exists |-> TRUE, lines |-> ToCsv(EmptyFrame(Columns))]

\* ---------------------------------------------------------------- store
SizeLimit == 200

\* _ensure_history() deciding by the size alone (the line count not read).
EnsureHistory_SizeOnly(f) ==
    IF ~f.exists THEN HeaderOnly
    ELSE IF FileBytes(f.lines, 1) < SizeLimit THEN HeaderOnly
    ELSE f

\* _ensure_history() that takes exactly one line for a header-only file and
\* so leaves a zero-length file as it is.
EnsureHistory_OneLine(f) ==
    IF ~f.exists THEN HeaderOnly
    ELSE IF Len(f.lines) = 1 /\ FileBytes(f.lines, 1) < SizeLimit
         THEN HeaderOnly
         ELSE f

\* _ensure_history(): the file after the call.  The header is rewritten when
\* both tests pass, st_size < 200 and len(lines) <= 1 (written here with the
\* cheaper test first; neither has an effect).
EnsureHistory(f) ==
    IF ~f.exists THEN HeaderOnly
    ELSE IF Len(f.lines) <= 1 /\ FileBytes(f.lines, 1) < SizeLimit
         THEN HeaderOnly
         ELSE f

\* The record save_history_entry builds, in column order.
Record(e, id, ts) ==
    << Uuid(id), Iso(ts), e.beta, e.gamma, e.N, e.I0, e.R0, e.days,
       e.signal_type, e.amp, e.freq,
       IF e.step_time # None THEN e.step_time ELSE "",
       e.peak_I, e.peak_day, e.final_S, e.final_I, e.final_R,
       IF e.summary_text # None THEN e.summary_text ELSE "" >>

\* The frame of the new record alone (the rows read from the file dropped).
Concat_NewOnly(df, record) == [columns |-> Columns, rows |-> <<record>>]

\* pd.concat([df, pd.DataFrame([record])], ignore_index=True): the columns
\* of df, then those only the record has; a value a frame lacks is NaN.
Concat(df, record) ==
    LET extra == SelectSeq(Columns, LAMBDA c : IndexOf(df.columns, c) = 0)
        cols == df.columns \o extra
        old == [r \in 1..Len(df.rows) |->
                   df.rows[r] \o [i \in 1..Len(extra) |-> NaN]]
        new == [i \in 1..Len(cols) |->
                   IF Col(cols[i]) = 0 THEN NaN ELSE record[Col(cols[i])]]
    IN  IF df.columns = Columns
        THEN [columns |-> Columns, rows |-> Append(df.rows, record)]
        ELSE [columns |-> cols, rows |-> Append(old, new)]

\* load_history_df() on the file _ensure_history left.
LoadFrame(df) == IF DfEmpty(df) THEN EmptyFrame(Columns) ELSE df

\* df[df["id"] == entry_id]
RowsWithId(df, id) ==
    SelectSeq(df.rows, LAMBDA r : r[IndexOf(df.columns, "id")] = Uuid(id))

\* ---------------------------------------------------------------- inputs
\* Parameter sets handed to save_history_entry: step_time, summary and
\* statistics all set, or all left at their None defaults.
Entry(st, sm) ==
    [ beta |-> "0.3", gamma |-> "0.1", N |-> "1000.0", I0 |-> "10.0",
      R0 |-> "0.0", days |-> "100", signal_type |-> "step", amp |-> "0.5",
      freq |-> "1.0", step_time |-> st, summary_text |-> sm,
      peak_I |-> IF sm = None THEN None ELSE "480.2",
      peak_day |-> IF sm = None THEN None ELSE "38.5",
      final_S |-> IF sm = None THEN None ELSE "52.1",
      final_I |-> IF sm = None THEN None ELSE "3.3",
      final_R |-> IF sm = None THEN None ELSE "944.6" ]

Entries == {Entry(None, None), Entry("50.0", "summary")}

\* Values datetime.utcnow() can return: the wall clock, which the program
\* does not control (it can repeat a value or be set back between calls).
Instants == 1..MaxClock

\* The file as the program can find it at start: absent, zero-length,
\* header-only, or left by an earlier process with one record (whose
\* timestamp field may have been blanked by a manual edit).
Absent == [exists |-> FALSE, lines |-> <<>>]
ZeroLength == [exists |-> TRUE, lines |-> <<>>]

WithRecord(tsCell) ==
    [exists |-> TRUE,
     lines |-> ToCsv([columns |-> Columns,
                      rows |-> << [Record(Entry(None, None), 0, 0)
                                      EXCEPT ![2] = tsCell] >>])]

InitialFiles ==
    {Absent, ZeroLength, HeaderOnly, WithRecord(NaN), WithRecord(Iso(0))}

\* ---------------------------------------------------------------- idle parts
SigIdle == [phase |-> "idle"]
SirIdle == [phase |-> "idle"]
SummIdle == [phase |-> "idle"]
ReqIdle == [phase |-> "idle"]

\* ---------------------------------------------------------------- operations
Init ==
    /\ file \in InitialFiles
    /\ issued = 0
    /\ calls = <<>>
    /\ op = "init"
    /\ raised = FALSE
    /\ retId = 0
    /\ retEntry = <<>>
    /\ retDf = EmptyFrame(<<>>)
    /\ listing = <<>>
    /\ detailArgs = <<>>
    /\ sig = SigIdle
    /\ sir = SirIdle
    /\ summ = SummIdle
    /\ req = ReqIdle

\* What an operation leaves when it returns nothing of a kind.
NoResult(name) ==
    /\ op' = name
    /\ UNCHANGED <<sig, sir, summ, req>>

\* _ensure_history() called on its own.
EnsureOp ==
    /\ file' = EnsureHistory(file)
    /\ raised' = FALSE
    /\ NoResult("ensure")
    /\ retId' = 0 /\ retEntry' = <<>> /\ retDf' = EmptyFrame(<<>>)
    /\ listing' = <<>> /\ detailArgs' = <<>>
    /\ UNCHANGED <<issued, calls>>

\* save_history_entry(**e): _ensure_history, read all, append, write all.
SaveHistoryEntry(e, ts) ==
    /\ issued < MaxAppends
    /\ LET f1 == EnsureHistory(file)
           rd == ReadCsv(f1.lines)
           id == issued + 1
       IN  IF ~rd.ok
           THEN /\ file' = f1
                /\ raised' = TRUE
                /\ retId' = 0
                /\ UNCHANGED <<issued, calls>>
           ELSE /\ file' = [exists |-> TRUE,
                            lines |-> ToCsv(Concat(rd.df, Record(e, id, ts)))]
                /\ raised' = FALSE
                /\ retId' = id
                /\ issued' = id
                /\ calls' = Append(calls, [id |-> id, ts |-> ts, e |-> e])
    /\ NoResult("save")
    /\ retEntry' = <<>> /\ retDf' = EmptyFrame(<<>>)
    /\ listing' = <<>> /\ detailArgs' = <<>>

\* load_history_df()
LoadHistoryDf ==
    /\ LET f1 == EnsureHistory(file)
           rd == ReadCsv(f1.lines)
       IN  /\ file' = f1
           /\ raised' = ~rd.ok
           /\ retDf' = IF rd.ok THEN LoadFrame(rd.df) ELSE EmptyFrame(<<>>)
    /\ NoResult("load")
    /\ retId' = 0 /\ retEntry' = <<>> /\ listing' = <<>> /\ detailArgs' = <<>>
    /\ UNCHANGED <<issued, calls>>

\* get_history_entry(entry_id): <<row>> of the first match, <<>> for None.
GetEntry(df, id) ==
    LET rows == RowsWithId(df, id)
    IN  IF Len(rows) = 0 THEN <<>> ELSE <<rows[1]>>

GetHistoryEntry(id) ==
    /\ LET f1 == EnsureHistory(file)
           rd == ReadCsv(f1.lines)
       IN  /\ file' = f1
           /\ raised' = ~rd.ok
           /\ retEntry' = IF rd.ok THEN GetEntry(LoadFrame(rd.df), id) ELSE <<>>
    /\ NoResult("get")
    /\ retId' = id
    /\ retDf' = EmptyFrame(<<>>) /\ listing' = <<>> /\ detailArgs' = <<>>
    /\ UNCHANGED <<issued, calls>>

\* The permutations of 1..n, for the row counts a file can hold.
PermsOf ==
    [n \in 0..(MaxAppends + 1) |->
        {q \in [1..n -> 1..n] : \A i, j \in 1..n : i # j => q[i] # q[j]}]

\* sort_values("timestamp") with the default ascending=True.
Orderings_Ascending(keys) ==
    {q \in PermsOf[Len(keys)] :
        \A i \in 1..(Len(keys) - 1) : keys[q[i]] <= keys[q[i + 1]]}

\* df.sort_values("timestamp", ascending=False), by the rows' keys: the
\* orders a sort that promises no stability can leave.
Orderings(keys) ==
    {q \in PermsOf[Len(keys)] :
        \A i \in 1..(Len(keys) - 1) : keys[q[i]] >= keys[q[i + 1]]}

\* history(): the table of the listing page.
History ==
    /\ LET f1 == EnsureHistory(file)
           rd == ReadCsv(f1.lines)
           df == LoadFrame(rd.df)
           k == IndexOf(df.columns, "timestamp")
           kept == SelectSeq(df.rows, LAMBDA r : ~IsNA(r[k]))
       IN  /\ file' = f1
           /\ raised' = ~rd.ok
           /\ IF ~rd.ok \/ k = 0 \/ DfEmpty(df) \/ Len(kept) = 0
              THEN listing' = <<>>
              ELSE \E q \in Orderings([i \in 1..Len(kept) |->
                                          InstantOf(kept[i][k])]) :
                       listing' = [i \in 1..Len(kept) |-> kept[q[i]]]
    /\ NoResult("history")
    /\ retId' = 0 /\ retEntry' = <<>> /\ retDf' = EmptyFrame(<<>>)
    /\ detailArgs' = <<>>
    /\ UNCHANGED <<issued, calls>>

\* float(x) if x != "" else default; float(nan) is nan.
FloatOr(v, default) == IF v # "" THEN v ELSE default

\* The arguments history_detail hands to simulate_sir.
DetailArgs(entry) ==
    [ beta |-> entry[Col("beta")], gamma |-> entry[Col("gamma")],
      N |-> entry[Col("N")], I0 |-> entry[Col("I0")], R0 |-> entry[Col("R0")],
      days |-> entry[Col("days")], signal_type |-> entry[Col("signal")],
      amp |-> FloatOr(entry[Col("amp")], "0.5"),
      freq |-> FloatOr(entry[Col("freq")], "1.0"),
      step_time |-> FloatOr(entry[Col("step_time")], None) ]

\* int(nan) raises; so does NaT.strftime.
DetailRaises(entry) ==
    \E c \in {"timestamp", "days", "peak_I", "final_S", "final_I", "final_R"} :
        IsNA(entry[Col(c)])

\* history_detail(entry_id): look the entry up, recompute, render.
HistoryDetail(id) ==
    /\ LET f1 == EnsureHistory(file)
           rd == ReadCsv(f1.lines)
           got == IF rd.ok THEN GetEntry(LoadFrame(rd.df), id) ELSE <<>>
       IN  /\ file' = f1
           /\ retEntry' = got
           /\ IF got = <<>>
              THEN /\ raised' = ~rd.ok
                   /\ detailArgs' = <<>>
              ELSE /\ raised' = DetailRaises(got[1])
                   /\ detailArgs' = IF IsNA(got[1][Col("days")])
                                    THEN <<>>
                                    ELSE <<DetailArgs(got[1])>>
    /\ NoResult("detail")
    /\ retId' = id
    /\ retDf' = EmptyFrame(<<>>) /\ listing' = <<>>
    /\ UNCHANGED <<issued, calls>>

\* Ids a caller can ask for: on file, issued, or (not yet) known to nobody.
AskIds == 0..MaxAppends

Next ==
    \/ EnsureOp
    \/ \E e \in Entries, ts \in Instants : SaveHistoryEntry(e, ts)
    \/ LoadHistoryDf
    \/ \E id \in AskIds : GetHistoryEntry(id)
    \/ History
    \/ \E id \in AskIds : HistoryDetail(id)

Spec == Init /\ [][Next]_vars

\* ================================================================ numbers
\* A float is modelled by the exact rational <<n, d>> in lowest terms, d > 0
\* (rounding is not modelled); 0/0 is FNaN and x/0, x > 0, is FInf.  An
\* infinity is only ever compared, never computed with.
RECURSIVE Gcd(_, _)
Gcd(a, b) == IF b = 0 THEN a ELSE Gcd(b, a % b)

Abs(n) == IF n < 0 THEN -n ELSE n

Rat(n, d) ==
    LET g == Gcd(Abs(n), Abs(d))
    IN  IF d < 0 THEN <<(-n) \div g, (-d) \div g>> ELSE <<n \div g, d \div g>>

OfInt(n) == <<n, 1>>
FNaN == <<0, 0>>
FInf == <<1, 0>>
Half == <<1, 2>>
Unset == <<>>

IsFinite(x) == x[2] # 0

FAdd(x, y) ==
    IF IsFinite(x) /\ IsFinite(y)
    THEN Rat(x[1] * y[2] + y[1] * x[2], x[2] * y[2])
    ELSE FNaN

FNeg(x) == IF IsFinite(x) THEN <<-x[1], x[2]>> ELSE FNaN

FSub(x, y) == FAdd(x, FNeg(y))

FMul(x, y) ==
    IF IsFinite(x) /\ IsFinite(y) THEN Rat(x[1] * y[1], x[2] * y[2]) ELSE FNaN

\* numpy division: 0/0 is nan and x/0 an infinity (a warning, no exception).
FDiv(x, y) ==
    IF ~(IsFinite(x) /\ IsFinite(y)) THEN FNaN
    ELSE IF y[1] # 0 THEN Rat(x[1] * y[2], x[2] * y[1])
    ELSE IF x[1] = 0 THEN FNaN
    ELSE FInf

\* Comparisons: false whenever a side is nan.
FGt(x, y) ==
    IF x = FNaN \/ y = FNaN THEN FALSE
    ELSE IF x = FInf THEN y # FInf
    ELSE IF y = FInf THEN FALSE
    ELSE x[1] * y[2] > y[1] * x[2]

FGe(x, y) == (x # FNaN /\ y # FNaN) /\ ~FGt(y, x)

\* Python's max(a, b): b unless a > b.
FMax(a, b) == IF FGt(a, b) THEN a ELSE b

\* ================================================================ control signal
\* A value of u: the number a (k = "num"), or, where exp and sin leave the
\* rationals, the term 1 + a * exp(-b / 2) (k = "gauss", b = z^2 > 0) or
\* 1 + a * sin(2 pi b) (k = "sin", b the phase in turns, 0 <= b < 1), a # 0.
\* Two such terms built with the same amp are equal exactly when a and b are.
Num(x) == [k |-> "num", a |-> x, b |-> OfInt(0)]

UFinite(v) == IsFinite(v.a) /\ IsFinite(v.b)

\* t.min(), t.max()
SeqMin(T) == CHOOSE x \in {T[i] : i \in 1..Len(T)} :
                 \A i \in 1..Len(T) : x <= T[i]
SeqMax(T) == CHOOSE x \in {T[i] : i \in 1..Len(T)} :
                 \A i \in 1..Len(T) : x >= T[i]

\* 1.0 + amp * np.exp(-0.5 * z ** 2), given z ** 2.
Gauss(amp, z2) ==
    IF ~(IsFinite(amp) /\ IsFinite(z2)) THEN Num(FNaN)
    ELSE IF amp[1] = 0 THEN Num(OfInt(1))
    ELSE IF z2[1] = 0 THEN Num(FAdd(OfInt(1), amp))
    ELSE [k |-> "gauss", a |-> amp, b |-> z2]

\* 1.0 + amp * np.sin(2 * np.pi * phase): exact at the quarter turns.
Sine(amp, phase) ==
    IF ~(IsFinite(amp) /\ IsFinite(phase)) THEN Num(FNaN)
    ELSE IF amp[1] = 0 THEN Num(OfInt(1))
    ELSE IF (4 * phase[1]) % phase[2] = 0
         THEN LET q == ((4 * phase[1]) \div phase[2]) % 4
              IN  Num(FAdd(OfInt(1), FMul(amp, OfInt(<<0, 1, 0, -1>>[q + 1]))))
         ELSE [k |-> "sin", a |-> amp,
               b |-> Rat(phase[1] % phase[2], phase[2])]

\* step: the default step_time, (t.max() - t.min()) / 2.0.
StepDefault(T) == FDiv(OfInt(SeqMax(T) - SeqMin(T)), OfInt(2))

\* ramp: the divisor t1 - t0.
RampDen(T) == OfInt(SeqMax(T) - SeqMin(T))

\* control_signal(t, signal_type, amp, freq, step_time): u for each sample.
ControlSignal(T, signal_type, amp, freq, step_time) ==
    LET lo == SeqMin(T)
        hi == SeqMax(T)
    IN  IF signal_type = "step"
        THEN LET st == IF step_time = Unset THEN StepDefault(T) ELSE step_time
             IN  [i \in 1..Len(T) |->
                     IF FGe(OfInt(T[i]), st)
                     THEN Num(FAdd(OfInt(1), amp)) ELSE Num(OfInt(1))]
        ELSE IF signal_type = "impulse"
        THEN LET center == IF step_time = Unset
                           THEN FDiv(OfInt(hi + lo), OfInt(2)) ELSE step_time
                 width == FMax(FMul(OfInt(hi - lo), Rat(2, 100)), Half)
             IN  [i \in 1..Len(T) |->
                     LET z == FDiv(FSub(OfInt(T[i]), center), width)
                     IN  Gauss(amp, FMul(z, z))]
        ELSE IF signal_type = "ramp"
        THEN [i \in 1..Len(T) |->
                 Num(FAdd(OfInt(1), FMul(amp, FDiv(OfInt(T[i] - lo), RampDen(T)))))]
        ELSE IF signal_type = "sin"
        THEN [i \in 1..Len(T) |->
                 Sine(amp, FDiv(FMul(freq, OfInt(T[i] - lo)),
                                FMax(OfInt(1), OfInt(hi - lo))))]
        ELSE [i \in 1..Len(T) |-> Num(OfInt(1))]

\* ---------------------------------------------------------------- inputs
MaxTime == 4
MaxLen == 3

SignalTypes == {"none", "step", "impulse", "ramp", "sin"}

\* Ascending sample sets over 0..MaxTime, up to MaxLen samples.
SampleSets ==
    {T \in UNION {[1..n -> 0..MaxTime] : n \in 1..MaxLen} :
        \A i \in 1..(Len(T) - 1) : T[i] < T[i + 1]}

Amps == {OfInt(0), Half, OfInt(-1)}
Freqs == {OfInt(1), Half}
StepTimes == {Unset, OfInt(1), Rat(5, 2)}

SigInit ==
    /\ sig \in [phase : {"call"}, T : SampleSets, signal_type : SignalTypes,
                amp : Amps, freq : Freqs, step_time : StepTimes, u : {<<>>}]
    /\ file = Absent
    /\ issued = 0
    /\ calls = <<>>
    /\ op = "init"
    /\ raised = FALSE
    /\ retId = 0
    /\ retEntry = <<>>
    /\ retDf = EmptyFrame(<<>>)
    /\ listing = <<>>
    /\ detailArgs = <<>>
    /\ sir = SirIdle
    /\ summ = SummIdle
    /\ req = ReqIdle

\* One call of control_signal, from its arguments to its result.
ControlSignalCall ==
    /\ sig.phase = "call"
    /\ sig' = [sig EXCEPT !.phase = "returned",
                          !.u = ControlSignal(sig.T, sig.signal_type, sig.amp,
                                              sig.freq, sig.step_time)]
    /\ UNCHANGED <<storeVars, sir, summ>>

SigNext == ControlSignalCall

SpecSignal == SigInit /\ [][SigNext]_vars

\* ================================================================ SIR integrator
MaxDays == 2

\* np.linspace(0, days, npoints) with npoints = days + 1: the grid 0, 1, .., days.
Grid(days) == [i \in 1..(days + 1) |-> i - 1]

\* simulate_sir: the initial state [S0, I0, R0].
InitialState(N, I0, R0) == <<FMax(FSub(FSub(N, I0), R0), OfInt(0)), I0, R0>>

\* sir_ode(y, t, ...): u at the scalar t, then [dSdt, dIdt, dRdt].
OdeU(t, p) ==
    ControlSignal(<<t>>, p.signal_type, p.amp, p.freq, p.step_time)[1]

SirOde(y, t, p) ==
    LET u == OdeU(t, p).a
        beta_eff == FMul(p.beta, u)
        flow == FDiv(FMul(FMul(beta_eff, y[1]), y[2]), p.N)
    IN  << FNeg(flow),
           FSub(flow, FMul(p.gamma, y[2])),
           FMul(p.gamma, y[2]) >>

\* Parameter sets: beta, gamma, N > 0, I0, R0 >= 0 (I0 + R0 above N included),
\* every signal type, step_time set or unset.  An impulse with a set
\* step_time is left out: off its centre the multiplier is 1 + amp * exp(..),
\* which the exact arithmetic of the state cannot carry.
SirParams ==
    {p \in [beta : {OfInt(1), OfInt(2)}, gamma : {OfInt(1)}, N : {OfInt(4)},
            I0 : {OfInt(1), OfInt(3)}, R0 : {OfInt(0), OfInt(2)},
            days : 1..MaxDays, signal_type : SignalTypes, amp : {Half},
            freq : {OfInt(1)}, step_time : {Unset, OfInt(1)}] :
        p.signal_type = "impulse" => p.step_time = Unset}

SirInit ==
    /\ sir \in [phase : {"call"}, p : SirParams, k : {1}, y : {<<>>},
                dy : {<<>>}, udyn : {<<>>}, u : {<<>>}]
    /\ file = Absent
    /\ issued = 0
    /\ calls = <<>>
    /\ op = "init"
    /\ raised = FALSE
    /\ retId = 0
    /\ retEntry = <<>>
    /\ retDf = EmptyFrame(<<>>)
    /\ listing = <<>>
    /\ detailArgs = <<>>
    /\ sig = SigIdle
    /\ summ = SummIdle
    /\ req = ReqIdle

\* simulate_sir up to the call of odeint: y0 and the grid.
SimulateStart ==
    /\ sir.phase = "call"
    /\ sir' = [sir EXCEPT !.phase = "odeint",
                          !.y = InitialState(sir.p.N, sir.p.I0, sir.p.R0)]
    /\ UNCHANGED <<storeVars, sig, summ>>

\* odeint advancing from grid point k to k + 1: one evaluation of sir_ode at
\* (y, t_k) and one step of the length of the grid spacing along it.  (The
\* solver is a library; every linear one-step or multistep scheme combines
\* the derivatives sir_ode returns in this way.)
OdeStep ==
    /\ sir.phase = "odeint"
    /\ sir.k <= sir.p.days
    /\ LET t == Grid(sir.p.days)[sir.k]
           d == SirOde(sir.y, t, sir.p)
       IN  sir' = [sir EXCEPT !.k = sir.k + 1,
                              !.dy = d,
                              !.y = [i \in 1..3 |-> FAdd(sir.y[i], d[i])],
                              !.udyn = Append(sir.udyn, OdeU(t, sir.p))]
    /\ UNCHANGED <<storeVars, sig, summ>>

\* simulate_sir after odeint: u recomputed over the whole output grid.
SimulateReturn ==
    /\ sir.phase = "odeint"
    /\ sir.k = sir.p.days + 1
    /\ sir' = [sir EXCEPT !.phase = "returned",
                          !.u = ControlSignal(Grid(sir.p.days),
                                              sir.p.signal_type, sir.p.amp,
                                              sir.p.freq, sir.p.step_time)]
    /\ UNCHANGED <<storeVars, sig, summ>>

SirNext == SimulateStart \/ OdeStep \/ SimulateReturn

SpecSir == SirInit /\ [][SirNext]_vars

\* ================================================================ summary
\* Index of the largest entry of v that is not nan (np.nanargmax, the first
\* on ties); 0 when every entry is nan, where np.nanargmax raises ValueError.
NanArgMax(v) ==
    LET live == {i \in 1..Len(v) : v[i] # FNaN}
    IN  IF live = {} THEN 0
        ELSE CHOOSE i \in live :
                \A j \in live : FGe(v[i], v[j]) /\ (v[j] = v[i] => i <= j)

\* np.nanmax over a sequence with an entry that is not nan.
NanMax(v) == v[NanArgMax(v)]

\* int(round(x)) raises ValueError on nan and OverflowError on an infinity.
RoundRaises(x) == ~IsFinite(x)

\* R0_basic = beta / gamma if gamma != 0 else float("inf")
R0Basic(beta, gamma) == IF gamma # OfInt(0) THEN FDiv(beta, gamma) ELSE FInf

\* The interpretation line chosen by the if / elif / else on R0_basic.
Tier(R0_basic) ==
    IF FGt(R0_basic, Rat(3, 2)) THEN "fast"
    ELSE IF FGt(R0_basic, OfInt(1)) /\ FGe(Rat(3, 2), R0_basic) THEN "moderate"
    ELSE "declining"

\* The line on the control signal.
Effect(signal_type, u) ==
    IF signal_type # "none"
    THEN IF FGt(NanMax(u), Rat(21, 20)) THEN "raised" ELSE "small"
    ELSE "steady"

\* The recommendation line.
Advice(R0_basic) == IF FGt(R0_basic, Rat(3, 2)) THEN "intervene" ELSE "observe"

\* The trajectories handed over by run_simulation_and_save: a finite one,
\* one with its peak at the start, and the one a nan multiplier leaves
\* behind (the initial state, then nan).
Trajectories ==
    { [S |-> <<OfInt(3), OfInt(2)>>, I |-> <<OfInt(1), OfInt(2)>>,
       R |-> <<OfInt(0), OfInt(0)>>],
      [S |-> <<OfInt(3), OfInt(3)>>, I |-> <<OfInt(1), OfInt(0)>>,
       R |-> <<OfInt(0), OfInt(1)>>],
      [S |-> <<OfInt(3), FNaN>>, I |-> <<OfInt(1), FNaN>>,
       R |-> <<OfInt(0), FNaN>>] }

Rates == {OfInt(0), Half, OfInt(1), Rat(3, 2), OfInt(2), OfInt(3), OfInt(-1)}

Multipliers == {<<OfInt(1), OfInt(1)>>, <<OfInt(1), Rat(3, 2)>>}

SummInit ==
    /\ summ \in [phase : {"call"}, beta : Rates, gamma : Rates,
                 traj : Trajectories, u : Multipliers,
                 signal_type : {"none", "step"}]
    /\ file = Absent
    /\ issued = 0
    /\ calls = <<>>
    /\ op = "init"
    /\ raised = FALSE
    /\ retId = 0
    /\ retEntry = <<>>
    /\ retDf = EmptyFrame(<<>>)
    /\ listing = <<>>
    /\ detailArgs = <<>>
    /\ sig = SigIdle
    /\ sir = SirIdle
    /\ req = ReqIdle

\* generate_summary: the statistics and their formatting, then R0_basic and
\* the three lines that depend on it and on u.
GenerateSummary ==
    /\ summ.phase = "call"
    /\ LET I == summ.traj.I
           peak_idx == NanArgMax(I)
           n == Len(I)
           fails == \/ peak_idx = 0
                    \/ RoundRaises(I[peak_idx])
                    \/ RoundRaises(summ.traj.S[n])
                    \/ RoundRaises(I[n])
                    \/ RoundRaises(summ.traj.R[n])
           R0_basic == R0Basic(summ.beta, summ.gamma)
       IN  summ' =
             IF fails
             THEN [phase |-> "raised", beta |-> summ.beta, gamma |-> summ.gamma,
                   traj |-> summ.traj, u |-> summ.u,
                   signal_type |-> summ.signal_type]
             ELSE [phase |-> "returned", beta |-> summ.beta,
                   gamma |-> summ.gamma, traj |-> summ.traj, u |-> summ.u,
                   signal_type |-> summ.signal_type,
                   peak_I |-> I[peak_idx], R0_basic |-> R0_basic,
                   tier |-> Tier(R0_basic),
                   effect |-> Effect(summ.signal_type, summ.u),
                   advice |-> Advice(R0_basic)]
    /\ UNCHANGED <<storeVars, sig, sir>>

SummNext == GenerateSummary

SpecSummary == SummInit /\ [][SummNext]_vars

\* ================================================================ concurrent requests
\* Requests served at the same time (the server runs one thread per request),
\* each in run_simulation_and_save -> save_history_entry.  A step is one call
\* that touches the file: _ensure_history(), pd.read_csv, df.to_csv; what
\* lies between them works on the request's own values.  No lock is taken.
Appenders == 2

Procs == 1..Appenders

RaceEntry == Entry("50.0", "summary")

\* The frame pd.concat appends to: df as read at the start of the call; the
\* file f as it is at the time of the write is not consulted.
AppendTo_Reread(df, f) == ReadCsv(f.lines).df

AppendTo(df, f) == df

RaceInit ==
    /\ file \in InitialFiles
    /\ req = [base |-> file,
              proc |-> [p \in Procs |->
                          [pc |-> "start", df |-> EmptyFrame(<<>>),
                           id |-> 0, ts |-> 0]]]
    /\ issued = 0
    /\ calls = <<>>
    /\ op = "init"
    /\ raised = FALSE
    /\ retId = 0
    /\ retEntry = <<>>
    /\ retDf = EmptyFrame(<<>>)
    /\ listing = <<>>
    /\ detailArgs = <<>>
    /\ sig = SigIdle
    /\ sir = SirIdle
    /\ summ = SummIdle

\* save_history_entry, first statement: _ensure_history().
RaceEnsure(p) ==
    /\ req.proc[p].pc = "start"
    /\ file' = EnsureHistory(file)
    /\ req' = [req EXCEPT !.proc[p].pc = "ensured"]
    /\ UNCHANGED <<issued, calls, op, raised, retId, retEntry, retDf, listing,
                   detailArgs, sig, sir, summ>>

\* df = pd.read_csv(HISTORY_FILE), then the id and the timestamp.
RaceRead(p, ts) ==
    /\ req.proc[p].pc = "ensured"
    /\ LET rd == ReadCsv(file.lines)
       IN  IF ~rd.ok
           THEN /\ req' = [req EXCEPT !.proc[p].pc = "raised"]
                /\ UNCHANGED issued
           ELSE /\ req' = [req EXCEPT !.proc[p] =
                              [pc |-> "read", df |-> rd.df,
                               id |-> issued + 1, ts |-> ts]]
                /\ issued' = issued + 1
    /\ UNCHANGED <<file, calls, op, raised, retId, retEntry, retDf, listing,
                   detailArgs, sig, sir, summ>>

\* pd.concat, df.to_csv(HISTORY_FILE, index=False), return entry_id.
RaceWrite(p) ==
    /\ req.proc[p].pc = "read"
    /\ LET r == req.proc[p]
       IN  /\ file' = [exists |-> TRUE,
                       lines |-> ToCsv(Concat(AppendTo(r.df, file),
                                              Record(RaceEntry, r.id, r.ts)))]
           /\ calls' = Append(calls, [id |-> r.id, ts |-> r.ts, e |-> RaceEntry])
           /\ retId' = r.id
    /\ req' = [req EXCEPT !.proc[p].pc = "returned"]
    /\ UNCHANGED <<issued, op, raised, retEntry, retDf, listing, detailArgs,
                   sig, sir, summ>>

RaceNext ==
    \E p \in Procs :
        \/ RaceEnsure(p)
        \/ \E ts \in Instants : RaceRead(p, ts)
        \/ RaceWrite(p)

SpecRace == RaceInit /\ [][RaceNext]_vars

\* ================================================================ replay
\* Parameter sets of run_simulation_and_save as index() passes them on:
\* step_time unset or set; the summary and the statistics come back from
\* generate_summary and are always set.
RunEntries == {Entry(None, "summary"), Entry("50.0", "summary")}

\* run_simulation_and_save(**e): simulate_sir and generate_summary work on
\* the request's own values; the one effect on the store is the call of
\* save_history_entry with their results.
RunSimulationAndSave(e, ts) == SaveHistoryEntry(e, ts)

ReplayInit == Init

ReplayNext ==
    \/ \E e \in RunEntries, ts \in Instants : RunSimulationAndSave(e, ts)
    \/ \E id \in AskIds : HistoryDetail(id)

SpecReplay == ReplayInit /\ [][ReplayNext]_vars

\* ================================================================ claims
\* The records on file: the lines after the header.
StoreRows(f) == IF f.exists /\ Len(f.lines) >= 1 THEN Tail(f.lines) ELSE <<>>

RowIds(f) == {StoreRows(f)[i][1] : i \in 1..Len(StoreRows(f))}

\* A store with no record: absent, zero-length or header-only.
EmptyStore(f) == ~f.exists \/ f.lines = <<>> \/ f.lines = <<Columns>>

Passed(e) ==
    [ beta |-> e.beta, gamma |-> e.gamma, N |-> e.N, I0 |-> e.I0, R0 |-> e.R0,
      days |-> e.days, signal |-> e.signal_type, amp |-> e.amp,
      freq |-> e.freq, step_time |-> e.step_time, peak_I |-> e.peak_I,
      peak_day |-> e.peak_day, final_S |-> e.final_S, final_I |-> e.final_I,
      final_R |-> e.final_R, summary |-> e.summary_text ]

\* C2: round trip.  get_history_entry of the id the latest save returned
\* gives a record whose sixteen parameter and statistics fields equal the
\* values passed to that save.
C2_RoundTrip ==
    (op = "get" /\ Len(calls) > 0 /\ retId = calls[Len(calls)].id)
        => /\ ~raised
           /\ retEntry # <<>>
           /\ \A c \in DOMAIN Passed(calls[Len(calls)].e) :
                  retEntry[1][Col(c)] = Passed(calls[Len(calls)].e)[c]

\* C3: _ensure_history is idempotent and non-destructive.  Whenever it has
\* run, a second call would change nothing, the file starts with the one
\* header row of the 18 canonical columns, and a store that held a record
\* is as it was.
C3_EnsureIdempotent ==
    [][ op' = "ensure"
            => /\ EnsureHistory(file') = file'
               /\ file'.exists
               /\ Len(file'.lines) >= 1
               /\ file'.lines[1] = Columns
               /\ \A i \in 2..Len(file'.lines) : file'.lines[i] # Columns
               /\ (Len(StoreRows(file)) >= 1 => file' = file) ]_vars

\* _ensure_history has run on a store holding records, one of them small.
C3_Witness ==
    /\ op = "ensure"
    /\ Len(StoreRows(file)) >= 2
    /\ \E i \in 1..Len(StoreRows(file)) : StoreRows(file)[i][2] = ""

\* C4: on a store with no record (absent, zero-length, header-only)
\* load_history_df returns the empty frame with the 18 canonical columns
\* and history() an empty table; neither raises.
C4_EmptyStore ==
    [][ EmptyStore(file)
            => /\ (op' = "load" =>
                      ~raised' /\ retDf' = EmptyFrame(Columns))
               /\ (op' = "history" => ~raised' /\ listing' = <<>>) ]_vars

\* history() has returned from a store that holds the header alone.
C4_Witness ==
    /\ op = "history"
    /\ ~raised
    /\ listing = <<>>
    /\ file = HeaderOnly

\* The rows of the file whose timestamp is not missing, as read_csv reads them.
Stamped(f) ==
    SelectSeq([i \in 1..Len(StoreRows(f)) |->
                  [c \in 1..Len(StoreRows(f)[i]) |-> FromCell(StoreRows(f)[i][c])]],
              LAMBDA r : ~IsNA(r[Col("timestamp")]))

\* Position in the listing of the record with this id, 0 when absent.
ListedAt(id) ==
    IF \E i \in 1..Len(listing) : listing[i][1] = Uuid(id)
    THEN CHOOSE i \in 1..Len(listing) : listing[i][1] = Uuid(id)
    ELSE 0

\* The listing holds exactly the stamped rows of the file.
ListsStamped ==
    /\ Len(listing) = Len(Stamped(file))
    /\ {listing[i] : i \in 1..Len(listing)}
           = {Stamped(file)[i] : i \in 1..Len(Stamped(file))}

\* C5 as stated: the listing holds exactly the stamped records and a record
\* appended later never comes after one appended earlier.
C5_LaterNeverAfter ==
    (op = "history" /\ ~raised)
        => /\ ListsStamped
           /\ \A p, q \in 1..Len(calls) :
                  p < q => ListedAt(calls[q].id) < ListedAt(calls[p].id)

\* C5, amended: the listing holds exactly the stamped records, in
\* non-increasing timestamp order; a record appended later comes before one
\* appended earlier whenever its timestamp is strictly greater.
C5_ByTimestamp ==
    (op = "history" /\ ~raised)
        => /\ ListsStamped
           /\ \A i \in 1..(Len(listing) - 1) :
                  InstantOf(listing[i][2]) >= InstantOf(listing[i + 1][2])
           /\ \A p, q \in 1..Len(calls) :
                  (p < q /\ calls[q].ts > calls[p].ts)
                      => ListedAt(calls[q].id) < ListedAt(calls[p].id)

\* A listing of two appended records, the later one first, from a file that
\* also holds a record without timestamp.
C5_Witness ==
    /\ op = "history"
    /\ Len(listing) = 2
    /\ Len(StoreRows(file)) = 3
    /\ Len(calls) = 2
    /\ calls[2].ts > calls[1].ts
    /\ listing[1][1] = Uuid(calls[2].id)

\* The samples of a call, as numbers.
StepOf(T, thr, amp) ==
    [i \in 1..Len(T) |->
        IF FGe(OfInt(T[i]), thr) THEN Num(FAdd(OfInt(1), amp)) ELSE Num(OfInt(1))]

\* C6: for signal_type = step, u(t) is 1 + amp for every sample t >=
\* step_time and 1 otherwise; with step_time unset the threshold is the
\* midpoint (min(T) + max(T)) / 2, whatever the minimum of T.
C6_StepMidpoint ==
    (sig.phase = "returned" /\ sig.signal_type = "step")
        => sig.u = StepOf(sig.T,
                          IF sig.step_time = Unset
                          THEN FDiv(OfInt(SeqMin(sig.T) + SeqMax(sig.T)), OfInt(2))
                          ELSE sig.step_time,
                          sig.amp)

\* C7: on a one-element sample set control_signal returns exactly one
\* defined finite value, for every signal type, amp, freq and step_time.
C7_SinglePoint ==
    (sig.phase = "returned" /\ Len(sig.T) = 1)
        => Len(sig.u) = 1 /\ UFinite(sig.u[1])

Sum3(v) == FAdd(FAdd(v[1], v[2]), v[3])

\* C8: mass conservation, on the parameter sets with I0 + R0 <= N (beyond
\* them S0 is clamped at 0 and S0 + I0 + R0 is I0 + R0, not N).  The initial
\* state sums to N, the derivatives sir_ode returns sum to zero at every
\* state, and S + I + R equals N at every step of the trajectory.
C8_MassConserved ==
    (sir.phase \in {"odeint", "returned"}
        /\ FGe(sir.p.N, FAdd(sir.p.I0, sir.p.R0)))
        => /\ Sum3(sir.y) = sir.p.N
           /\ (sir.dy # <<>> => Sum3(sir.dy) = OfInt(0))

\* beta / gamma > c, by cross-multiplication (+infinity for gamma = 0).
RatioAbove(beta, gamma, c) ==
    IF gamma = OfInt(0) THEN TRUE
    ELSE IF FGt(gamma, OfInt(0)) THEN FGt(beta, FMul(c, gamma))
    ELSE FGt(FMul(c, gamma), beta)

\* C9: every call of generate_summary ends with exactly one tier: fast when
\* beta / gamma > 1.5, moderate when 1 < beta / gamma <= 1.5, declining when
\* beta / gamma <= 1; with gamma = 0 it returns, R0_basic is +infinity and
\* the tier and the recommendation are those of a fast spread.
C9_Tiers ==
    summ.phase # "call" =>
        /\ summ.phase = "returned"
        /\ summ.tier = ( IF RatioAbove(summ.beta, summ.gamma, Rat(3, 2))
                         THEN "fast"
                         ELSE IF RatioAbove(summ.beta, summ.gamma, OfInt(1))
                         THEN "moderate"
                         ELSE "declining" )
        /\ summ.gamma = OfInt(0) =>
              /\ summ.R0_basic = FInf
              /\ summ.tier = "fast"
              /\ summ.advice = "intervene"

\* C10: at every time of the output grid the multiplier sir_ode used equals
\* the multiplier simulate_sir reports there.
C10_ReportedMatchesUsed ==
    sir.phase = "returned"
        => \A i \in 1..Len(sir.udyn) : sir.udyn[i] = sir.u[i]

\* The ids of the records in a frame or on file, in row order.
IdsOf(rows) == [i \in 1..Len(rows) |-> rows[i][1]]

\* C11: save_history_entry is an unlocked read-all / append / write-all.
\* Whenever a request's write completes, the store holds exactly the records
\* that request read followed by its own; a record another request wrote
\* after that read is no longer in the store.
C11_WriteAll ==
    [][\A p \in Procs :
          (req.proc[p].pc = "read" /\ req'.proc[p].pc = "returned")
              => IdsOf(StoreRows(file')) =
                    Append(IdsOf(req.proc[p].df.rows), Uuid(req.proc[p].id))]_vars

\* C11: two requests have both returned a fresh id, and the store holds the
\* record of one of them only.
C11_Witness ==
    \E p, q \in Procs :
        /\ p # q
        /\ req.proc[p].pc = "returned" /\ req.proc[q].pc = "returned"
        /\ req.proc[p].id # req.proc[q].id
        /\ Uuid(req.proc[p].id) \notin RowIds(req.base)
        /\ Uuid(req.proc[q].id) \notin RowIds(req.base)
        /\ Uuid(req.proc[p].id) \notin RowIds(file)
        /\ Uuid(req.proc[q].id) \in RowIds(file)

\* The arguments of simulate_sir in the run that created an entry.
RunArgs(e) ==
    [ beta |-> e.beta, gamma |-> e.gamma, N |-> e.N, I0 |-> e.I0,
      R0 |-> e.R0, days |-> e.days, signal_type |-> e.signal_type,
      amp |-> e.amp, freq |-> e.freq, step_time |-> e.step_time ]

\* C12: replay fidelity.  history_detail on the id of an entry created by
\* run_simulation_and_save calls simulate_sir with the arguments of the
\* original run, step_time unset included, and leaves the records of the
\* store as they were.
C12_ReplayFidelity ==
    [][\A i \in 1..Len(calls) :
          (op' = "detail" /\ retId' = calls[i].id)
              => /\ detailArgs' = <<RunArgs(calls[i].e)>>
                 /\ StoreRows(file') = StoreRows(file)]_vars

====
